---- MODULE Spec2Model ----
(***************************************************************************)
(* The bakery lock of src/main.rs (RawBakeryLock<N>) together with the     *)
(* harness of main(): N threads, each running                              *)
(*     lock(thread_id); *num += 1; unlock(thread_id)                       *)
(* a fixed number of times.  Every atomic load and store of the source is  *)
(* one step.  The hardware is either sequentially consistent (hw = "sc":   *)
(* a store reaches memory at once) or has one FIFO store buffer per thread *)
(* (hw = "tso": a store is queued, reaches memory by a later Flush step,   *)
(* and the thread's own loads are forwarded from its buffer).              *)
(***************************************************************************)
EXTENDS Integers, Sequences, FiniteSets, TLC

\* NUM_THREADS of main() (10 in the source), bounded for model checking.
N == 2

\* Iterations of the loop of main() per thread (100000 in the source).
K == 2

\* The largest ticket value; stands for u32::MAX, where checked_add(1) fails.
MaxTicket == 3

\* Capacity of a store buffer.  The default build never has more than four
\* stores in flight (lines 112, 166, 144 and 48 between F2 and the next F1).
MaxBuf == 4

Threads == 0 .. (N - 1)

VARIABLES
    choosing,      \* choosing[i]: the AtomicBool cells, as memory holds them
    ticket,        \* ticket[i]: the AtomicU32 cells, as memory holds them
    num,           \* the shared counter of main()
    buf,           \* buf[t]: thread t's store buffer, a FIFO of <<cell, value>>
    pc,            \* pc[t]: thread t's position in main()/lock()/unlock()
    idx,           \* idx[t]: position of the .iter() over self.ticket
    max_existing,  \* max_existing[t]: running maximum of the scan
    my_ticket,     \* my_ticket[t]: the local `ticket` of lock()
    other,         \* other[t]: the loop variable of `for other in 0..N`
    tmp,           \* tmp[t]: the value of *num read by `+= 1`
    left,          \* left[t]: iterations of main()'s loop still to run
    features,      \* cargo features enabled in the build
    hw,            \* "sc" or "tso"
    ahead,         \* history: ahead[b] = threads whose ticket store preceded
                   \* the start of b's choosing phase and that have not
                   \* entered their critical section since
    held           \* held[t]: calls of lock(t) that have returned since the
                   \* last unlock(t)

shared == <<choosing, ticket, num>>
locals == <<idx, max_existing, my_ticket, other, tmp>>
vars == <<choosing, ticket, num, buf, pc, idx, max_existing, my_ticket, other,
          tmp, left, features, hw, held, ahead>>

----------------------------------------------------------------------------
(* Memory *)

\* Variant: the store goes to the slot of the next identity.
CommitNextSlot(t, cell, v) ==
    /\ choosing' = IF cell = "choosing"
                   THEN [choosing EXCEPT ![(t + 1) % N] = v] ELSE choosing
    /\ ticket' = IF cell = "ticket"
                 THEN [ticket EXCEPT ![(t + 1) % N] = v] ELSE ticket
    /\ num' = IF cell = "num" THEN v ELSE num

\* A store by thread t becomes visible: only t's own slot is written.
Commit(t, cell, v) ==
    /\ choosing' = IF cell = "choosing" THEN [choosing EXCEPT ![t] = v] ELSE choosing
    /\ ticket' = IF cell = "ticket" THEN [ticket EXCEPT ![t] = v] ELSE ticket
    /\ num' = IF cell = "num" THEN v ELSE num

\* A store instruction of thread t; it stalls while the store buffer is full.
Store(t, cell, v) ==
    IF hw = "tso"
    THEN /\ Len(buf[t]) < MaxBuf
         /\ buf' = [buf EXCEPT ![t] = Append(@, <<cell, v>>)]
         /\ UNCHANGED shared
    ELSE /\ Commit(t, cell, v)
         /\ UNCHANGED buf

\* The stores to `cell` that thread t has buffered (they are all to t's slot).
Pending(t, cell) == SelectSeq(buf[t], LAMBDA e : e[1] = cell)

LoadChoosing(t, o) ==
    IF o = t /\ Pending(t, "choosing") # <<>>
    THEN Pending(t, "choosing")[Len(Pending(t, "choosing"))][2]
    ELSE choosing[o]

LoadTicket(t, o) ==
    IF o = t /\ Pending(t, "ticket") # <<>>
    THEN Pending(t, "ticket")[Len(Pending(t, "ticket"))][2]
    ELSE ticket[o]

LoadNum(t) ==
    IF Pending(t, "num") # <<>>
    THEN Pending(t, "num")[Len(Pending(t, "num"))][2]
    ELSE num

\* Variant: the newest buffered store reaches memory first (stores overtake
\* one another, as when the store of unlock is not a release).
FlushNewest(t) ==
    /\ buf[t] # <<>>
    /\ Commit(t, buf[t][Len(buf[t])][1], buf[t][Len(buf[t])][2])
    /\ buf' = [buf EXCEPT ![t] = SubSeq(@, 1, Len(@) - 1)]
    /\ UNCHANGED <<pc, locals, left, features, hw, held, ahead>>

\* The oldest buffered store of thread t reaches memory.
Flush(t) ==
    /\ buf[t] # <<>>
    /\ Commit(t, Head(buf[t])[1], Head(buf[t])[2])
    /\ buf' = [buf EXCEPT ![t] = Tail(@)]
    /\ UNCHANGED <<pc, locals, left, features, hw, held, ahead>>

\* Variant: F1 built as a compiler fence, which never waits for the buffer.
sc_fence_1_compiler_only(t) == TRUE

\* atomic::fence(SeqCst) completes once the thread's buffer has drained;
\* atomic::compiler_fence(SeqCst) constrains the compiler only.
sc_fence_1(t) == ("fake-fence-1" \in features) \/ buf[t] = <<>>

\* Variant: F2 built as a compiler fence, which never waits for the buffer.
sc_fence_2_compiler_only(t) == TRUE

sc_fence_2(t) == ("fake-fence-2" \in features) \/ buf[t] = <<>>

----------------------------------------------------------------------------
(* Positions *)

\* The ticket store of line 104 is done and lock() has not returned.
StoredPcs == {"fence2", "clear", "wait_choosing", "fence_acq", "wait_ticket",
              "acquire"}

\* Between the return of lock() and the call of unlock().
CsPcs == {"cs", "cs_write", "unlock"}

\* Inside lock().
LockPcs == {"start", "retry", "fence1", "scan", "check", "backoff",
            "store_ticket"} \cup StoredPcs

\* Variant: the for loop does not skip the caller's own slot.
SkipSelfNever(t, o) == o

\* `if other == thread { continue; }` of the for loop.
SkipSelf(t, o) == IF o = t THEN o + 1 ELSE o

\* Variant: the for loop runs over 0..N-1 and so never looks at the last slot.
LoopPcShort(t, o) == IF SkipSelf(t, o) >= N - 1 THEN "acquire" ELSE "wait_choosing"

\* Where the for loop goes when its variable would become o.
LoopPc(t, o) == IF SkipSelf(t, o) >= N THEN "acquire" ELSE "wait_choosing"

\* Variant: tickets compared with <= and the identities ignored.
TupleLessNoTie(a1, a2, b1, b2) == a1 <= b1

\* Variant: equal tickets broken in favour of the larger identity.
TupleLessReversedTie(a1, a2, b1, b2) == a1 < b1 \/ (a1 = b1 /\ a2 > b2)

\* (ticket, thread) < (other_ticket, other) on Rust tuples.
TupleLess(a1, a2, b1, b2) == a1 < b1 \/ (a1 = b1 /\ a2 < b2)

----------------------------------------------------------------------------
(* Initial states *)

InitCommon ==
    /\ choosing = [i \in Threads |-> FALSE]
    /\ ticket = [i \in Threads |-> 0]
    /\ num = 0
    /\ buf = [t \in Threads |-> <<>>]
    /\ pc = [t \in Threads |-> "idle"]
    /\ idx = [t \in Threads |-> 0]
    /\ max_existing = [t \in Threads |-> 0]
    /\ my_ticket = [t \in Threads |-> 0]
    /\ other = [t \in Threads |-> 0]
    /\ tmp = [t \in Threads |-> 0]
    /\ left = [t \in Threads |-> K]
    /\ ahead = [t \in Threads |-> {}]
    /\ held = [t \in Threads |-> 0]

Init ==
    /\ InitCommon
    /\ features = {}
    /\ hw = "sc"

InitTSO ==
    /\ InitCommon
    /\ features = {}
    /\ hw = "tso"

\* Store buffers; the build is either the default one or has fake-fence-1.
InitFake1 ==
    /\ InitCommon
    /\ features \in {{}, {"fake-fence-1"}}
    /\ hw = "tso"

\* Store buffers; the build is either the default one or has fake-fence-2.
InitFake2 ==
    /\ InitCommon
    /\ features \in {{}, {"fake-fence-2"}}
    /\ hw = "tso"

----------------------------------------------------------------------------
(* main(): the loop body calls lock *)

CallLock(t) ==
    /\ pc[t] = "idle"
    /\ left[t] > 0
    /\ pc' = [pc EXCEPT ![t] = "start"]
    /\ UNCHANGED <<shared, buf, locals, left, features, hw, held, ahead>>

(* A caller that holds the lock calls lock(t) once more without unlock(t) *)
CallLockAgain(t) ==
    /\ pc[t] = "cs"
    /\ held[t] = 1
    /\ pc' = [pc EXCEPT ![t] = "start"]
    /\ UNCHANGED <<shared, buf, locals, left, features, hw, held, ahead>>

\* Identities a caller may pass: those of the lock and two beyond its end.
Identities == 0 .. (N + 1)

\* The bounds check of self.choosing[thread] and self.ticket[thread].
IndexInBounds(thread) == thread < N

(* Variant of LockOutOfRange: the store of line 48 is done through a wrapped
   index and the fault is raised after it *)
LockOutOfRangeLateFault(t) ==
    /\ pc[t] = "idle"
    /\ left[t] > 0
    /\ \E thread \in Identities :
          /\ ~IndexInBounds(thread)
          /\ Commit(thread % N, "choosing", TRUE)
    /\ pc' = [pc EXCEPT ![t] = "fault"]
    /\ UNCHANGED <<buf, locals, left, features, hw, held, ahead>>

(* lock(thread) with thread >= N: the index of line 48 panics *)
LockOutOfRange(t) ==
    /\ pc[t] = "idle"
    /\ left[t] > 0
    /\ \E thread \in Identities : ~IndexInBounds(thread)
    /\ pc' = [pc EXCEPT ![t] = "fault"]
    /\ UNCHANGED <<shared, buf, locals, left, features, hw, held, ahead>>

(* unlock(thread) with thread >= N: the index of line 144 panics *)
UnlockOutOfRange(t) ==
    /\ pc[t] = "unlock"
    /\ \E thread \in Identities : ~IndexInBounds(thread)
    /\ pc' = [pc EXCEPT ![t] = "fault"]
    /\ UNCHANGED <<shared, buf, locals, left, features, hw, held, ahead>>

(* lock(), line 48: self.choosing[thread].store(true) *)
ChoosingTrue(t) ==
    /\ pc[t] \in {"start", "retry"}
    /\ Store(t, "choosing", TRUE)
    /\ pc' = [pc EXCEPT ![t] = "fence1"]
    /\ ahead' = IF pc[t] = "start"
                THEN [ahead EXCEPT ![t] = {a \in Threads \ {t} : pc[a] \in StoredPcs}]
                ELSE ahead
    /\ UNCHANGED <<locals, left, features, hw, held>>

(* line 83: sc_fence_1(); the iterator of line 85 starts *)
Fence1(t) ==
    /\ pc[t] = "fence1"
    /\ sc_fence_1(t)
    /\ pc' = [pc EXCEPT ![t] = "scan"]
    /\ idx' = [idx EXCEPT ![t] = 0]
    /\ max_existing' = [max_existing EXCEPT ![t] = 0]
    /\ UNCHANGED <<shared, buf, my_ticket, other, tmp, left, features, hw, held, ahead>>

(* Variant of ScanLoad: .last() in place of .max() *)
ScanLoadLast(t) ==
    /\ pc[t] = "scan"
    /\ idx[t] < N
    /\ max_existing' = [max_existing EXCEPT ![t] = LoadTicket(t, idx[t])]
    /\ idx' = [idx EXCEPT ![t] = @ + 1]
    /\ pc' = [pc EXCEPT ![t] = IF idx[t] + 1 = N THEN "check" ELSE "scan"]
    /\ UNCHANGED <<shared, buf, my_ticket, other, tmp, left, features, hw, held, ahead>>

(* lines 85-90: one ticket.load(Relaxed) of the .map(...).max() *)
ScanLoad(t) ==
    /\ pc[t] = "scan"
    /\ idx[t] < N
    /\ LET v == LoadTicket(t, idx[t]) IN
          max_existing' = [max_existing EXCEPT ![t] = IF v > @ THEN v ELSE @]
    /\ idx' = [idx EXCEPT ![t] = @ + 1]
    /\ pc' = [pc EXCEPT ![t] = IF idx[t] + 1 = N THEN "check" ELSE "scan"]
    /\ UNCHANGED <<shared, buf, my_ticket, other, tmp, left, features, hw, held, ahead>>

(* Variant of CheckedAdd: wrapping_add(1), so that u32::MAX + 1 is 0 *)
CheckedAddWrapping(t) ==
    /\ pc[t] = "check"
    /\ my_ticket' = [my_ticket EXCEPT ![t] = (max_existing[t] + 1) % (MaxTicket + 1)]
    /\ pc' = [pc EXCEPT ![t] = "store_ticket"]
    /\ idx' = [idx EXCEPT ![t] = 0]
    /\ max_existing' = [max_existing EXCEPT ![t] = 0]
    /\ UNCHANGED <<shared, buf, other, tmp, left, features, hw, held, ahead>>

(* Variant of CheckedAdd: saturating_add(1), so that u32::MAX + 1 is u32::MAX *)
CheckedAddSaturating(t) ==
    /\ pc[t] = "check"
    /\ my_ticket' = [my_ticket EXCEPT ![t] =
                        IF max_existing[t] < MaxTicket
                        THEN max_existing[t] + 1 ELSE MaxTicket]
    /\ pc' = [pc EXCEPT ![t] = "store_ticket"]
    /\ idx' = [idx EXCEPT ![t] = 0]
    /\ max_existing' = [max_existing EXCEPT ![t] = 0]
    /\ UNCHANGED <<shared, buf, other, tmp, left, features, hw, held, ahead>>

(* lines 92-95: max_existing.checked_add(1) *)
CheckedAdd(t) ==
    /\ pc[t] = "check"
    /\ IF max_existing[t] < MaxTicket
       THEN /\ my_ticket' = [my_ticket EXCEPT ![t] = max_existing[t] + 1]
            /\ pc' = [pc EXCEPT ![t] = "store_ticket"]
       ELSE /\ my_ticket' = my_ticket
            /\ pc' = [pc EXCEPT ![t] = "backoff"]
    \* the iterator and max_existing are dropped at the end of the attempt
    /\ idx' = [idx EXCEPT ![t] = 0]
    /\ max_existing' = [max_existing EXCEPT ![t] = 0]
    /\ UNCHANGED <<shared, buf, other, tmp, left, features, hw, held, ahead>>

(* Variant of BackOff: the store of line 99 is left out *)
BackOffNoClear(t) ==
    /\ pc[t] = "backoff"
    /\ pc' = [pc EXCEPT ![t] = "retry"]
    /\ UNCHANGED <<shared, buf, locals, left, features, hw, held, ahead>>

(* lines 99-101: choosing[thread].store(false); spin_loop(); next attempt *)
BackOff(t) ==
    /\ pc[t] = "backoff"
    /\ Store(t, "choosing", FALSE)
    /\ pc' = [pc EXCEPT ![t] = "retry"]
    /\ UNCHANGED <<locals, left, features, hw, held, ahead>>

(* line 104: self.ticket[thread].store(ticket) *)
StoreTicket(t) ==
    /\ pc[t] = "store_ticket"
    /\ Store(t, "ticket", my_ticket[t])
    /\ pc' = [pc EXCEPT ![t] = "fence2"]
    /\ UNCHANGED <<locals, left, features, hw, held, ahead>>

(* line 110: sc_fence_2() *)
Fence2(t) ==
    /\ pc[t] = "fence2"
    /\ sc_fence_2(t)
    /\ pc' = [pc EXCEPT ![t] = "clear"]
    /\ UNCHANGED <<shared, buf, locals, left, features, hw, held, ahead>>

(* Variant of ChoosingFalse: the store of line 112 is left out *)
ChoosingFalseForgotten(t) ==
    /\ pc[t] = "clear"
    /\ other' = [other EXCEPT ![t] = SkipSelf(t, 0)]
    /\ pc' = [pc EXCEPT ![t] = LoopPc(t, 0)]
    /\ UNCHANGED <<shared, buf, idx, max_existing, my_ticket, tmp, left, features, hw, held, ahead>>

(* line 112: self.choosing[thread].store(false); the for loop starts *)
ChoosingFalse(t) ==
    /\ pc[t] = "clear"
    /\ Store(t, "choosing", FALSE)
    /\ other' = [other EXCEPT ![t] = SkipSelf(t, 0)]
    /\ pc' = [pc EXCEPT ![t] = LoopPc(t, 0)]
    /\ UNCHANGED <<idx, max_existing, my_ticket, tmp, left, features, hw, held, ahead>>

(* Variant of WaitChoosing: the spin on choosing[other] is left out *)
WaitChoosingSkipped(t) ==
    /\ pc[t] = "wait_choosing"
    /\ pc' = [pc EXCEPT ![t] = "fence_acq"]
    /\ UNCHANGED <<shared, buf, locals, left, features, hw, held, ahead>>

(* lines 119-121: while self.choosing[other].load() { spin_loop() } *)
WaitChoosing(t) ==
    /\ pc[t] = "wait_choosing"
    /\ pc' = [pc EXCEPT ![t] = IF LoadChoosing(t, other[t])
                               THEN "wait_choosing" ELSE "fence_acq"]
    /\ UNCHANGED <<shared, buf, locals, left, features, hw, held, ahead>>

(* line 125: atomic::fence(Acquire); loads are not reordered on either hw *)
FenceAcquire(t) ==
    /\ pc[t] = "fence_acq"
    /\ pc' = [pc EXCEPT ![t] = "wait_ticket"]
    /\ UNCHANGED <<shared, buf, locals, left, features, hw, held, ahead>>

(* Variant of WaitTicket: the peer's ticket is not waited for *)
WaitTicketImpatient(t) ==
    /\ pc[t] = "wait_ticket"
    /\ other' = [other EXCEPT ![t] = SkipSelf(t, @ + 1)]
    /\ pc' = [pc EXCEPT ![t] = LoopPc(t, other[t] + 1)]
    /\ UNCHANGED <<shared, buf, idx, max_existing, my_ticket, tmp, left, features, hw, held, ahead>>

(* lines 127-133: one iteration of the loop over ticket[other] *)
WaitTicket(t) ==
    /\ pc[t] = "wait_ticket"
    /\ LET other_ticket == LoadTicket(t, other[t]) IN
          IF other_ticket = 0 \/ TupleLess(my_ticket[t], t, other_ticket, other[t])
          THEN /\ other' = [other EXCEPT ![t] = SkipSelf(t, @ + 1)]
               /\ pc' = [pc EXCEPT ![t] = LoopPc(t, other[t] + 1)]
          ELSE UNCHANGED <<other, pc>>
    /\ UNCHANGED <<shared, buf, idx, max_existing, my_ticket, tmp, left, features, hw, held, ahead>>

(* lines 138-139: atomic::fence(Acquire); lock() returns *)
Acquire(t) ==
    /\ pc[t] = "acquire"
    /\ pc' = [pc EXCEPT ![t] = "cs"]
    \* the locals of lock() are dropped at its return
    /\ my_ticket' = [my_ticket EXCEPT ![t] = 0]
    /\ other' = [other EXCEPT ![t] = 0]
    /\ ahead' = [b \in Threads |-> ahead[b] \ {t}]
    /\ held' = [held EXCEPT ![t] = @ + 1]
    /\ UNCHANGED <<shared, buf, idx, max_existing, tmp, left, features, hw>>

(* main(), line 166: the read of `*num.0.get() += 1` *)
ReadNum(t) ==
    /\ pc[t] = "cs"
    /\ tmp' = [tmp EXCEPT ![t] = LoadNum(t)]
    /\ pc' = [pc EXCEPT ![t] = "cs_write"]
    /\ UNCHANGED <<shared, buf, idx, max_existing, my_ticket, other, left, features, hw, held, ahead>>

(* main(), line 166: the write of `*num.0.get() += 1` *)
WriteNum(t) ==
    /\ pc[t] = "cs_write"
    /\ Store(t, "num", tmp[t] + 1)
    /\ pc' = [pc EXCEPT ![t] = "unlock"]
    /\ tmp' = [tmp EXCEPT ![t] = 0]
    /\ UNCHANGED <<idx, max_existing, my_ticket, other, left, features, hw, held, ahead>>

(* unlock(), line 144: self.ticket[thread].store(0, Release); the loop of
   main() goes to its next iteration *)
Unlock(t) ==
    /\ pc[t] = "unlock"
    /\ Store(t, "ticket", 0)
    /\ pc' = [pc EXCEPT ![t] = "idle"]
    /\ left' = [left EXCEPT ![t] = @ - 1]
    /\ held' = [held EXCEPT ![t] = 0]
    /\ UNCHANGED <<locals, features, hw, ahead>>

----------------------------------------------------------------------------
(* Specifications *)

Thread(t) ==
    \/ CallLock(t)
    \/ ChoosingTrue(t)
    \/ Fence1(t)
    \/ ScanLoad(t)
    \/ CheckedAdd(t)
    \/ BackOff(t)
    \/ StoreTicket(t)
    \/ Fence2(t)
    \/ ChoosingFalse(t)
    \/ WaitChoosing(t)
    \/ FenceAcquire(t)
    \/ WaitTicket(t)
    \/ Acquire(t)
    \/ ReadNum(t)
    \/ WriteNum(t)
    \/ Unlock(t)

Next == \E t \in Threads : Thread(t)

NextTSO == \E t \in Threads : Thread(t) \/ Flush(t)

\* Sequentially consistent hardware.
Spec == Init /\ [][Next]_vars

\* Sequentially consistent hardware, fair scheduler: a thread that can take a
\* step is eventually given the processor.
FairSpec == Spec /\ \A t \in Threads : WF_vars(Thread(t))

\* One FIFO store buffer per thread.
SpecTSO == InitTSO /\ [][NextTSO]_vars

\* Store buffers, with and without the fake-fence-1 feature.
SpecFake1 == InitFake1 /\ [][NextTSO]_vars

\* Store buffers, with and without the fake-fence-2 feature.
SpecFake2 == InitFake2 /\ [][NextTSO]_vars

NextReentrant == \E t \in Threads : Thread(t) \/ CallLockAgain(t)

\* Sequentially consistent hardware; callers may call lock twice in a row.
SpecReentrant == Init /\ [][NextReentrant]_vars

NextMisuse ==
    \E t \in Threads : Thread(t) \/ LockOutOfRange(t) \/ UnlockOutOfRange(t)

\* Sequentially consistent hardware; callers may pass an identity >= N.
SpecMisuse == Init /\ [][NextMisuse]_vars

Done == \A t \in Threads : pc[t] = "idle" /\ left[t] = 0

----------------------------------------------------------------------------
(* Properties *)

\* Lexicographic order on (ticket, identity) pairs, as the properties state it.
LexLess(t1, i1, t2, i2) == t1 < t2 \/ (t1 = t2 /\ i1 < i2)

\* C1 (mutual exclusion): no reachable state has two different threads both
\* between the return of lock and the call of unlock.
MutualExclusion ==
    \A a, b \in Threads : a # b => ~(pc[a] \in CsPcs /\ pc[b] \in CsPcs)

\* C1 witness: one thread is in its critical section while another one spins
\* in the wait loop on the holder's ticket.
MutualExclusionWitness ==
    \E a, b \in Threads :
        /\ a # b
        /\ pc[a] \in CsPcs
        /\ pc[b] = "wait_ticket"
        /\ other[b] = a

\* C2 (eventual entry): under fair scheduling every thread that is executing
\* lock eventually returns from it.
EventualEntry ==
    \A t \in Threads : (pc[t] \in LockPcs) ~> (pc[t] \in CsPcs)

\* C3 (first come, first served): a thread b is not in its critical section
\* while some thread whose ticket store preceded the start of b's choosing
\* phase has still not entered its own critical section.
PriorityOrdering ==
    \A b \in Threads : pc[b] \in CsPcs => ahead[b] = {}

\* C3 witness: b started choosing after a's ticket store, b has stored its own
\* ticket and is in the wait loop, a has not entered yet.
PriorityOrderingWitness ==
    \E a, b \in Threads :
        /\ a \in ahead[b]
        /\ pc[b] \in {"wait_choosing", "wait_ticket"}
        /\ pc[a] \in StoredPcs

\* C4 (aggregate correctness): once every thread has run its K iterations the
\* counter equals N * K.
AggregateCorrectness == Done => num = N * K

\* C4 witness: all threads have finished.
AggregateCorrectnessWitness == Done /\ num > 0

\* C5 (overflow retry terminates): a thread on the overflow path eventually
\* leaves the retry loop with a candidate ticket.
OverflowRetryTerminates ==
    \A t \in Threads : (pc[t] = "backoff") ~> (pc[t] = "store_ticket")

\* C6 (no deadlock under overflow): whenever some thread is executing lock,
\* some thread eventually enters its critical section.
NoDeadlock ==
    (\E t \in Threads : pc[t] \in LockPcs) ~> (\E t \in Threads : pc[t] = "cs")

\* C7 (minimal pair): a thread inside its critical section has the smallest
\* (ticket, identity) pair among the threads with a nonzero ticket.
MinimalPair ==
    \A i, j \in Threads :
        (i # j /\ pc[i] \in CsPcs /\ ticket[j] # 0)
            => LexLess(ticket[i], i, ticket[j], j)

\* C7 witness: a holder and another thread with a nonzero ticket.
MinimalPairWitness ==
    \E i, j \in Threads : i # j /\ pc[i] \in CsPcs /\ ticket[j] # 0

\* Thread i is choosing (choosing[i] was set and not yet cleared), waiting in
\* lock, or holding the lock.
Contending(i) ==
    pc[i] \in {"fence1", "scan", "check", "backoff", "store_ticket"}
              \cup StoredPcs \cup CsPcs

\* C8 as stated (ticket semantics): ticket[i] = 0 iff thread i is neither
\* choosing, nor waiting in lock, nor holding the lock.
TicketSemanticsAsStated ==
    \A i \in Threads : (ticket[i] = 0) <=> ~Contending(i)

\* C8 amended: ticket[i] # 0 iff thread i has done its ticket store (step 6)
\* and has not yet done the store of unlock; in particular ticket[i] = 0
\* while i is choosing before its ticket store.
TicketSemantics ==
    \A i \in Threads : (ticket[i] # 0) <=> (pc[i] \in StoredPcs \cup CsPcs)

\* C8 witness: one thread is choosing with its ticket still 0 while another
\* one holds a stored ticket.
TicketSemanticsWitness ==
    \E i, j \in Threads :
        /\ pc[i] \in {"fence1", "scan", "check", "store_ticket"}
        /\ ticket[i] = 0
        /\ pc[j] \in StoredPcs
        /\ ticket[j] # 0

\* C9 (entry order): while i and j both hold stored nonzero tickets, neither
\* in its critical section, and (ticket[i], i) < (ticket[j], j), no step
\* takes j into its critical section.
EntryOrder ==
    [][\A i, j \in Threads :
          (/\ i # j
           /\ pc[i] \in StoredPcs /\ pc[j] \in StoredPcs
           /\ ticket[i] # 0 /\ ticket[j] # 0
           /\ LexLess(ticket[i], i, ticket[j], j))
              => pc'[j] \notin CsPcs]_vars

\* C9 witness: two waiting threads with equal tickets, the tie being broken
\* by identity, the larger identity already past its choosing phase.
EntryOrderWitness ==
    \E i, j \in Threads :
        /\ i < j
        /\ ticket[i] = ticket[j] /\ ticket[i] # 0
        /\ pc[i] \in StoredPcs
        /\ pc[j] \in {"wait_choosing", "fence_acq", "wait_ticket"}

\* C10 (store buffering): with FIFO store buffers drained by F1 and F2, at
\* most one thread is between the return of lock and the call of unlock.
MutualExclusionTSO ==
    hw = "tso" /\ Cardinality({t \in Threads : pc[t] \in CsPcs}) <= 1

\* C10 witness: a thread holds the lock while another thread inside lock has
\* a store to choosing that has not reached memory.
MutualExclusionTSOWitness ==
    \E a, b \in Threads :
        /\ a # b
        /\ pc[a] \in CsPcs
        /\ pc[b] \in LockPcs
        /\ Pending(b, "choosing") # <<>>

\* Two different threads are between the return of lock and the call of unlock.
TwoHolders == \E a, b \in Threads : a # b /\ pc[a] \in CsPcs /\ pc[b] \in CsPcs

\* C11 (F1 is necessary): with store buffers and F2 kept, two threads are in
\* their critical sections together only in the build where F1 is a compiler
\* fence; the witness shows that such a state is reached in that build.
Fence1Necessary == TwoHolders => features = {"fake-fence-1"}

\* C11 witness: two simultaneous holders in the fake-fence-1 build.
Fence1NecessaryWitness == TwoHolders /\ features = {"fake-fence-1"} /\ hw = "tso"

\* C12 (F2 is necessary): with store buffers and F1 kept, two threads are in
\* their critical sections together only in the build where F2 is a compiler
\* fence; the witness shows that such a state is reached in that build.
Fence2Necessary == TwoHolders => features = {"fake-fence-2"}

\* C12 witness: two simultaneous holders in the fake-fence-2 build.
Fence2NecessaryWitness == TwoHolders /\ features = {"fake-fence-2"} /\ hw = "tso"

\* Thread t is inside a call of lock(t) made while it still holds the lock.
InSecondCall(t) == held[t] = 1 /\ pc[t] \in LockPcs

\* C13 as stated (reentrancy): a second lock(i) without an intervening
\* unlock(i) never returns.
SecondLockNeverReturns == \A t \in Threads : held[t] <= 1

\* C13 amended: a second lock(i) never waits on its own slot; it takes a
\* candidate ticket larger than the ticket it holds, and it is kept in the
\* retry loop by its own ticket only when that ticket is the maximum.
SecondLockSkipsSelf ==
    \A t \in Threads :
        /\ pc[t] \in {"wait_choosing", "fence_acq", "wait_ticket"} => other[t] # t
        /\ InSecondCall(t) =>
            /\ pc[t] = "store_ticket" =>
                   (ticket[t] < MaxTicket /\ my_ticket[t] > ticket[t])
            /\ (pc[t] = "backoff" /\ \A o \in Threads \ {t} : ticket[o] < MaxTicket)
                   => ticket[t] = MaxTicket

\* C13 witness: the second call has returned although no other thread has
\* ever called lock.
SecondLockWitness ==
    \E t \in Threads :
        /\ held[t] = 2
        /\ \A o \in Threads \ {t} : pc[o] = "idle" /\ left[o] = K

\* C14 (single writer): a step of thread t inside lock(t) or unlock(t) leaves
\* choosing[o] and ticket[o] unchanged for every o # t and leaves the
\* protected data alone, and the step of unlock(t) changes ticket[t] only.
SingleWriter ==
    [][\A t \in Threads :
          (pc'[t] # pc[t] /\ pc[t] \in LockPcs \cup {"unlock"}) =>
              /\ \A o \in Threads \ {t} :
                     choosing'[o] = choosing[o] /\ ticket'[o] = ticket[o]
              /\ num' = num
              /\ pc[t] = "unlock" => choosing' = choosing]_vars

\* C14 witness: a thread has written both of its cells while another
\* thread's cells are in use as well.
SingleWriterWitness ==
    \E t, o \in Threads :
        /\ t # o
        /\ choosing[t] /\ ticket[t] # 0
        /\ choosing[o] /\ ticket[o] # 0

\* C15 (out-of-range identity): the step in which a call with thread >= N
\* faults writes no cell, buffers no store, acquires and releases nothing,
\* and the faulted caller goes no further.
OutOfRangeFault ==
    [][\A t \in Threads :
          /\ (pc[t] # "fault" /\ pc'[t] = "fault") =>
                 /\ choosing' = choosing /\ ticket' = ticket /\ buf' = buf
                 /\ held' = held
          /\ pc[t] = "fault" => pc'[t] = "fault"]_vars

\* C15 witness: one caller faulted in unlock and still has its ticket, another
\* faulted in lock and has none.
OutOfRangeFaultWitness ==
    \E t, o \in Threads :
        /\ pc[t] = "fault" /\ ticket[t] # 0 /\ held[t] = 1
        /\ pc[o] = "fault" /\ ticket[o] = 0 /\ ~choosing[o]

\* Increments of num made in the critical sections that have been left.
RECURSIVE CompletedUpTo(_)
CompletedUpTo(n) == IF n = 0 THEN 0 ELSE (K - left[n - 1]) + CompletedUpTo(n - 1)

\* C16 (visibility between successive owners): with store buffers, the value
\* of the protected counter that an owner reads is the number of increments
\* made by all earlier owners; no owner reads a stale value.
OwnerSeesPreviousWrites ==
    \A t \in Threads : pc[t] = "cs_write" => tmp[t] = CompletedUpTo(N)

\* C16 witness: a thread that has not yet incremented the counter itself has
\* read, inside its critical section, a value written by another thread.
OwnerSeesPreviousWritesWitness ==
    \E t \in Threads :
        /\ hw = "tso"
        /\ pc[t] = "cs_write"
        /\ left[t] = K
        /\ tmp[t] > 0

\* Between the store of true to choosing[i] and the store of false that
\* follows it (line 99 on overflow, line 112 otherwise).
ChoosingPcs == {"fence1", "scan", "check", "backoff", "store_ticket", "fence2",
                "clear"}

\* C17 (choosing flag): choosing[i] is true only between step 1 and the store
\* of false of step 8 or of the overflow back-off, and it is false whenever
\* thread i is idle, spinning in the wait loop, or in its critical section.
ChoosingFlag ==
    \A i \in Threads :
        /\ choosing[i] => pc[i] \in ChoosingPcs
        /\ pc[i] \in {"idle", "wait_choosing", "fence_acq", "wait_ticket", "acquire"}
                     \cup CsPcs => ~choosing[i]

\* C17 witness: a thread spins in the wait loop with its flag false while the
\* other one is on the overflow path with its flag still true.
ChoosingFlagWitness ==
    \E i, j \in Threads :
        /\ pc[i] \in {"wait_choosing", "wait_ticket"} /\ ~choosing[i]
        /\ pc[j] = "backoff" /\ choosing[j]

\* The larger of two ticket values.
Larger(a, b) == IF a > b THEN a ELSE b

\* C18 (ticket value): the scan starts from 0, reads all N tickets and keeps
\* their maximum; the candidate is that maximum plus 1 and lies in
\* 1..MaxTicket; the value stored into ticket[thread] is the candidate.
TicketValue ==
    [][\A t \in Threads :
          /\ (pc[t] = "fence1" /\ pc'[t] = "scan") =>
                 (idx'[t] = 0 /\ max_existing'[t] = 0)
          /\ (pc[t] = "scan" /\ idx'[t] # idx[t]) =>
                 /\ idx'[t] = idx[t] + 1
                 /\ max_existing'[t] = Larger(max_existing[t], ticket[idx[t]])
                 /\ (pc'[t] = "check") <=> (idx'[t] = N)
          /\ (pc[t] = "check" /\ pc'[t] = "store_ticket") =>
                 /\ my_ticket'[t] = max_existing[t] + 1
                 /\ my_ticket'[t] \in 1 .. MaxTicket
          /\ (pc[t] = "store_ticket" /\ pc'[t] = "fence2") =>
                 /\ ticket'[t] = my_ticket[t]
                 /\ ticket'[t] \in 1 .. MaxTicket]_vars

\* C18 witness: the largest ticket value has been stored.
TicketValueWitness ==
    \E t \in Threads : pc[t] = "fence2" /\ ticket[t] = MaxTicket

\* C19 (overflow back-off leaves no trace): a thread about to retry after an
\* overflow has its cells as a thread about to make its first attempt has
\* them: choosing false, ticket 0, and no candidate ticket; and the back-off
\* step itself writes no ticket.
BackOffNoTrace ==
    [][\A t \in Threads :
          /\ pc[t] \in {"start", "retry"} =>
                 (~choosing[t] /\ ticket[t] = 0 /\ my_ticket[t] = 0)
          /\ (pc[t] = "backoff" /\ pc'[t] # "backoff") =>
                 (pc'[t] = "retry" /\ ticket' = ticket /\ ~choosing'[t])]_vars

\* C19 witness: a thread is about to retry because a peer holds the largest
\* ticket.
BackOffNoTraceWitness ==
    \E t, o \in Threads :
        pc[t] = "retry" /\ o # t /\ ticket[o] = MaxTicket

\* Thread i has gone past peer o in the wait loop of lock(i) and has not
\* yet done the store of unlock(i).
Passed(i, o) ==
    /\ o # i
    /\ \/ pc[i] \in {"wait_choosing", "fence_acq", "wait_ticket"} /\ other[i] > o
       \/ pc[i] \in {"acquire"} \cup CsPcs

\* C20 (cleared peers stay out): from the moment thread i has passed peer o
\* until i calls unlock(i), thread o is not in its critical section.
ClearedPeersStayOut ==
    \A i, o \in Threads : Passed(i, o) => pc[o] \notin CsPcs

\* C20 witness: i has passed o and is still inside lock, while o holds a
\* stored ticket and waits.
ClearedPeersStayOutWitness ==
    \E i, o \in Threads :
        /\ Passed(i, o)
        /\ pc[i] \in LockPcs
        /\ pc[o] \in {"wait_choosing", "wait_ticket"}
        /\ ticket[o] # 0

====
